---- MODULE Spec2Model ----
(***************************************************************************)
(* The question-answering session of src/main_v1.py: the loop of main()    *)
(* (lines 196-224) with LLMInvoker.invokellm, LLMInvoker.groundedness_check *)
(* and Tools.call_tool_func.  The retriever, the chat model, the           *)
(* groundedness service and the console are external: each call draws its  *)
(* result from a small set.  Text is a sequence of one-character strings,  *)
(* so that lower(), startswith(), str() and += are computed, not assumed.  *)
(* Init is the state on reaching line 196, the set-up of lines 177-194     *)
(* being taken as done.                                                    *)
(***************************************************************************)
EXTENDS Integers, Sequences, FiniteSets, TLC

VARIABLES
    pc,          \* where main() stands
    user_input,  \* main: user_input (line 197)
    response,    \* main: response (lines 200, 220)
    tool_calls,  \* main: tool_calls (line 209)
    context,     \* main: context (lines 216-218)
    attempt,     \* probes made by the loop of line 208 for this question
    exc,         \* the exception that left main() uncaught, or "none"
    calls,       \* history: external calls made since the last prompt
    printed,     \* history: lines printed since the last prompt
    asked        \* history: inputs read in this session

vars == <<pc, user_input, response, tool_calls, context, attempt, exc,
          calls, printed, asked>>

---------------------------------------------------------------------------
(* Bounds of the model *)

MaxInputs == 2
MaxToolCalls == 2

---------------------------------------------------------------------------
(* Text *)

UpperChars == <<"A", "B", "C", "D", "E", "F", "G", "H", "I", "J", "K", "L", "M",
                "N", "O", "P", "Q", "R", "S", "T", "U", "V", "W", "X", "Y", "Z">>
LowerChars == <<"a", "b", "c", "d", "e", "f", "g", "h", "i", "j", "k", "l", "m",
                "n", "o", "p", "q", "r", "s", "t", "u", "v", "w", "x", "y", "z">>

\* str.lower() on one character
LowerChar(c) ==
    IF \E i \in DOMAIN UpperChars : UpperChars[i] = c
    THEN LowerChars[CHOOSE i \in DOMAIN UpperChars : UpperChars[i] = c]
    ELSE c

\* str.lower()
lower(s) == [i \in 1..Len(s) |-> LowerChar(s[i])]

\* str.startswith(prefix)
startswith(s, prefix) ==
    /\ Len(prefix) <= Len(s)
    /\ SubSeq(s, 1, Len(prefix)) = prefix

STR_exit == <<"e", "x", "i", "t">>
STR_quit == <<"q", "u", "i", "t">>
STR_Grounded == <<"G", "r", "o", "u", "n", "d", "e", "d">>
STR_None == <<"N", "o", "n", "e">>

\* Python values: None and str
None == [type |-> "NoneType", text |-> <<>>]
StrValue(s) == [type |-> "str", text |-> s]

\* str(value), line 218
str(v) == IF v.type = "NoneType" THEN STR_None ELSE v.text

---------------------------------------------------------------------------
(* What the console and the external services may return *)

IN_EXIT == <<"E", "X", "I", "T">>
IN_Quit == <<"Q", "u", "i", "t">>
IN_why == <<"w", "h", "y">>
IN_Who == <<"W", "h", "o">>

\* input("You: ")
Inputs == {STR_exit, STR_quit, IN_EXIT, IN_Quit, IN_why, IN_Who}

\* the retriever's context for a question; it may be empty
Passages == {<<>>, <<"d", "o", "c">>}

\* the chat model's answer text
AnswerTexts == {<<"a", "1">>, <<"a", "2">>}

\* UpstageGroundednessCheck().invoke(...)
V_grounded == <<"g", "r", "o", "u", "n", "d", "e", "d">>
V_notGrounded == <<"n", "o", "t", "G", "r", "o", "u", "n", "d", "e", "d">>
V_notSure == <<"n", "o", "t", "S", "u", "r", "e">>
Verdicts == {V_grounded, V_notGrounded, V_notSure, STR_Grounded}

\* names a tool-call request may carry
N_pdf_search == <<"p", "d", "f", "_", "s", "e", "a", "r", "c", "h">>
N_Internet_Search == <<"I", "n", "t", "e", "r", "n", "e", "t", "_", "S", "e", "a", "r", "c", "h">>
N_internet_search == <<"i", "n", "t", "e", "r", "n", "e", "t", "_", "s", "e", "a", "r", "c", "h">>
N_main == <<"m", "a", "i", "n">>
N_calc == <<"c", "a", "l", "c">>
RequestNames == {N_pdf_search, N_Internet_Search, N_main, N_calc}

ARG_q == <<"q">>
ToolCalls == [name : RequestNames, args : {ARG_q}]

\* llm.invoke(user_input).tool_calls: a list of requests, possibly empty
ToolCallSeqs == UNION {[1..n -> ToolCalls] : n \in 0..MaxToolCalls}

---------------------------------------------------------------------------
(* History records *)

Call(op, arg, ctx, out) == [op |-> op, arg |-> arg, ctx |-> ctx, out |-> out]

BotLine(text) == [kind |-> "bot", text |-> text]
ApologyLine == [kind |-> "apology", text |-> <<>>]
ToolNotFoundLine(name) == [kind |-> "tool not found", text |-> name]

---------------------------------------------------------------------------
(* LLMInvoker *)

\* mutant: the chat model is asked before the retriever
invokellm_GenerateFirst(question, c, a) ==
    << Call("generate", question, c, a),
       Call("retrieve", question, <<>>, c) >>

\* mutant: the chain is built without the retriever
invokellm_NoRetriever(question, c, a) ==
    << Call("generate", question, c, a) >>

\* invokellm(question, template): the chain asks the retriever for the
\* context of the question and the chat model for the answer; c and a are
\* what the two services return.
invokellm(question, c, a) ==
    << Call("retrieve", question, <<>>, c),
       Call("generate", question, c, a) >>

groundedness_check(groundedness_result) ==
    startswith(lower(groundedness_result), STR_Grounded)

---------------------------------------------------------------------------
(* Tools *)

N_os == <<"o", "s">>
N_time == <<"t", "i", "m", "e">>
N_tool == <<"t", "o", "o", "l">>
N_Tools == <<"T", "o", "o", "l", "s">>

\* self.tools = [pdf_search, internet_search]: the registered tools.  The two
\* are defined in the body of class Tools (lines 149-161) and nowhere at
\* module level.
RegisteredTools == {N_pdf_search, N_internet_search}

\* globals(): names bound at module level.  pdf_search and internet_search
\* are attributes of class Tools, not module names.
Globals == {N_os, N_time, N_tool, N_Tools, N_main}

\* the module-level names bound to an object that has invoke()
Invocable == {}

\* selected_tool.invoke(args)
ToolOutput(name, args) == StrValue(name \o args)

\* how a call ends: it returns a value or raises; lines are what it printed
\* and invoked the tool invocations it made
Returned(v, lines, invoked) ==
    [exc |-> "none", value |-> v, lines |-> lines, invoked |-> invoked]
Raised(e) ==
    [exc |-> e, value |-> None, lines |-> <<>>, invoked |-> <<>>]

\* the body of call_tool_func with tool_call bound to the request
call_tool_func(tool_call) ==
    LET tool_name == lower(tool_call.name) IN
    IF tool_name \notin Globals
    THEN Returned(None, <<ToolNotFoundLine(tool_name)>>, <<>>)
    ELSE IF tool_name \notin Invocable
    THEN Raised("AttributeError")
    ELSE Returned(ToolOutput(tool_name, tool_call.args), <<>>,
                  <<Call("invoke", tool_name, tool_call.args,
                         ToolOutput(tool_name, tool_call.args).text)>>)

\* def call_tool_func(tool_call): the positional parameters it declares
DeclaredParams == 1
\* tool.call_tool_func(tool_call): the instance and the request are passed
PassedArgs == 2

\* tool.call_tool_func(tool_call) at line 218
CallOnInstance(tool_call) ==
    IF PassedArgs # DeclaredParams
    THEN Raised("TypeError")
    ELSE call_tool_func(tool_call)

\* for tool_call in tool_calls: context += str(tool.call_tool_func(tool_call))
\* from request i on; acc is what the loop has done so far.  Each call of
\* line 218 is kept in the history as a "resolve" entry with the text it
\* added to context (none when it raised).
RECURSIVE ResolveFrom(_, _, _)
ResolveFrom(tcs, i, acc) ==
    IF i > Len(tcs) THEN acc
    ELSE LET r == CallOnInstance(tcs[i]) IN
         IF r.exc # "none"
         THEN [acc EXCEPT !.exc = r.exc,
                          !.calls = acc.calls \o
                              <<Call("resolve", tcs[i].name, tcs[i].args, <<>>)>>]
         ELSE ResolveFrom(tcs, i + 1,
                  [exc |-> "none",
                   context |-> acc.context \o str(r.value),
                   lines |-> acc.lines \o r.lines,
                   calls |-> acc.calls \o r.invoked \o
                       <<Call("resolve", tcs[i].name, tcs[i].args, str(r.value))>>])

\* lines 216-218
ResolveAll(tcs) ==
    ResolveFrom(tcs, 1, [exc |-> "none", context |-> <<>>, lines |-> <<>>,
                         calls |-> <<>>])

---------------------------------------------------------------------------
(* main(): the session loop *)

\* for _ in range(3)
ProbeTries == 3

\* mutant: the loop allows one round too many
ProbeAgain_OneMore(tcs, n) == tcs = <<>> /\ n <= ProbeTries

\* mutant: the loop has no break on a non-empty result
ProbeAgain_NoBreak(tcs, n) == n < ProbeTries

\* the loop of line 208 goes round again after n probes, the last one
\* having returned tcs
ProbeAgain(tcs, n) == tcs = <<>> /\ n < ProbeTries

\* mutant: the test of line 212 never finds the list empty
NoToolCalls_Never(tcs) == FALSE

\* if not tool_calls (line 212)
NoToolCalls(tcs) == tcs = <<>>

\* mutant: the question, not the answer, is handed to the check
VerifiedText_Question == user_input

\* the argument of groundedness_check at line 204
VerifiedText == response

\* mutant: the input is compared without lower()
IsExit_CaseSensitive(text) == text \in {STR_exit, STR_quit}

\* user_input.lower() in ['exit', 'quit']
IsExit(text) == lower(text) \in {STR_exit, STR_quit}

Init ==
    /\ pc = "prompt"
    /\ user_input = <<>>
    /\ response = <<>>
    /\ tool_calls = <<>>
    /\ context = <<>>
    /\ attempt = 0
    /\ exc = "none"
    /\ calls = <<>>
    /\ printed = <<>>
    /\ asked = 0

\* lines 197-199
ReadInput ==
    /\ pc = "prompt"
    /\ asked < MaxInputs
    /\ \E text \in Inputs :
         /\ user_input' = text
         /\ pc' = IF IsExit(text) THEN "ended" ELSE "primary"
    /\ asked' = asked + 1
    /\ calls' = <<>>
    /\ printed' = <<>>
    /\ attempt' = 0
    /\ UNCHANGED <<response, tool_calls, context, exc>>

\* line 200
InvokePrimary ==
    /\ pc = "primary"
    /\ \E c \in Passages, a \in AnswerTexts :
         /\ response' = a
         /\ calls' = calls \o invokellm(user_input, c, a)
    /\ pc' = "verify"
    /\ UNCHANGED <<user_input, tool_calls, context, attempt, exc, printed, asked>>

\* lines 204-205
Verify ==
    /\ pc = "verify"
    /\ \E v \in Verdicts :
         /\ calls' = Append(calls, Call("verify", VerifiedText, <<>>, v))
         /\ IF groundedness_check(v)
            THEN /\ printed' = Append(printed, BotLine(response))
                 /\ pc' = "prompt"
            ELSE /\ printed' = printed
                 /\ pc' = "probe"
    /\ UNCHANGED <<user_input, response, tool_calls, context, attempt, exc, asked>>

\* lines 208-216: one round of the probe loop and, when the loop is over,
\* the test of line 212
Probe ==
    /\ pc = "probe"
    /\ \E tcs \in ToolCallSeqs :
         /\ tool_calls' = tcs
         /\ calls' = Append(calls, Call("probe", user_input, <<>>, tcs))
         /\ attempt' = attempt + 1
         /\ IF ProbeAgain(tcs, attempt + 1)
            THEN /\ pc' = "probe"
                 /\ UNCHANGED <<printed, context>>
            ELSE IF NoToolCalls(tcs)
            THEN /\ printed' = Append(printed, ApologyLine)
                 /\ pc' = "ended"
                 /\ UNCHANGED context
            ELSE /\ context' = <<>>
                 /\ pc' = "fallback"
                 /\ UNCHANGED printed
    /\ UNCHANGED <<user_input, response, exc, asked>>

\* lines 217-224
Fallback ==
    /\ pc = "fallback"
    /\ LET r == ResolveAll(tool_calls) IN
       /\ context' = r.context
       /\ IF r.exc # "none"
          THEN /\ exc' = r.exc
               /\ pc' = "crashed"
               /\ calls' = calls \o r.calls
               /\ printed' = printed \o r.lines
               /\ UNCHANGED response
          ELSE \E c \in Passages, a \in AnswerTexts :
               /\ response' = a
               /\ calls' = calls \o r.calls \o invokellm(user_input, c, a)
               /\ printed' = Append(printed \o r.lines, BotLine(a))
               /\ pc' = "prompt"
               /\ UNCHANGED exc
    /\ UNCHANGED <<user_input, tool_calls, attempt, asked>>

Next == ReadInput \/ InvokePrimary \/ Verify \/ Probe \/ Fallback

Spec == Init /\ [][Next]_vars

\* Every external call returns and main() runs on: once a question has been
\* read, each step of its processing is eventually taken.  Reading the next
\* input is up to the user and gets no fairness.
FairSpec ==
    /\ Spec
    /\ WF_vars(InvokePrimary)
    /\ WF_vars(Verify)
    /\ WF_vars(Probe)
    /\ WF_vars(Fallback)

---------------------------------------------------------------------------
(* The session with faults of the external services: no statement of      *)
(* main(), invokellm or groundedness_check is inside a try, so an exception *)
(* raised by a call leaves main().                                         *)

\* a verdict that is not a string
TrueValue == [type |-> "bool", text |-> <<"T", "r", "u", "e">>]
MalformedVerdicts == {None, TrueValue}

\* groundedness_result.lower() (line 131) raises AttributeError
LowerRaises(v) == v.type # "str"

\* lines 204 and 129-131, the groundedness service returning a verdict that
\* is not a string
VerifyMalformed ==
    /\ pc = "verify"
    /\ \E v \in MalformedVerdicts :
         /\ calls' = Append(calls, Call("verify", VerifiedText, <<>>, str(v)))
         /\ IF LowerRaises(v)
            THEN /\ exc' = "AttributeError"
                 /\ pc' = "crashed"
            ELSE /\ exc' = exc
                 /\ pc' = IF groundedness_check(v.text) THEN "prompt" ELSE "probe"
    /\ UNCHANGED <<user_input, response, tool_calls, context, attempt, printed, asked>>

\* line 200 and 126: the retriever answers, the chat model's call raises
PrimaryFault ==
    /\ pc = "primary"
    /\ \E c \in Passages :
         calls' = calls \o << Call("retrieve", user_input, <<>>, c),
                              Call("generate failed", user_input, c, <<>>) >>
    /\ exc' = "GeneratorError"
    /\ pc' = "crashed"
    /\ UNCHANGED <<user_input, response, tool_calls, context, attempt, printed, asked>>

\* line 209: the chat model's call raises
ProbeFault ==
    /\ pc = "probe"
    /\ calls' = Append(calls, Call("probe failed", user_input, <<>>, <<>>))
    /\ attempt' = attempt + 1
    /\ exc' = "GeneratorError"
    /\ pc' = "crashed"
    /\ UNCHANGED <<user_input, response, tool_calls, context, printed, asked>>

FaultNext == Next \/ VerifyMalformed \/ PrimaryFault \/ ProbeFault

FaultSpec == Init /\ [][FaultNext]_vars

---------------------------------------------------------------------------
(* Vocabulary of the properties, read off the history *)

CallsOf(op) == {i \in DOMAIN calls : calls[i].op = op}
Count(op) == Cardinality(CallsOf(op))

\* a generation that follows the verification is the regeneration
RegenCalls == {i \in CallsOf("generate") : \E j \in CallsOf("verify") : j < i}
PrimaryCalls == CallsOf("generate") \ RegenCalls

IsOutput(line) == line.kind \in {"bot", "apology"}
\* what the user is given: answers and apologies
Outputs == SelectSeq(printed, IsOutput)

IsResolve(c) == c.op = "resolve"
\* the calls of line 218, in order
Resolves == SelectSeq(calls, IsResolve)

RECURSIVE ConcatOuts(_)
ConcatOuts(s) == IF s = <<>> THEN <<>> ELSE Head(s).out \o ConcatOuts(Tail(s))

EmptyProbes == {i \in CallsOf("probe") : calls[i].out = <<>>}
NonEmptyProbe == \E i \in CallsOf("probe") : calls[i].out # <<>>

\* the groundedness service has called the primary answer grounded
JudgedGrounded ==
    \E i \in CallsOf("verify") : startswith(lower(calls[i].out), V_grounded)

InQuestion == pc \in {"primary", "verify", "probe", "fallback"}

\* the processing of the question last read has come to its end
QuestionOver ==
    /\ asked > 0
    /\ ~IsExit(user_input)
    /\ pc \in {"prompt", "ended", "crashed"}

\* a fallback round with requests has started and main() has left line 217-224
RoundOver == NonEmptyProbe /\ pc # "fallback"

HasUnknownTool(tcs) ==
    \E i \in DOMAIN tcs : lower(tcs[i].name) \notin RegisteredTools

---------------------------------------------------------------------------
(* The claims *)

\* C1: once the primary answer of a question is judged grounded, what is
\* printed for the question is exactly the primary answer, and no tool-call
\* probe, no tool resolution and no regeneration is made for it.
C1_GroundedShortCircuits ==
    JudgedGrounded =>
        /\ \E i \in PrimaryCalls : Outputs = <<BotLine(calls[i].out)>>
        /\ Count("probe") = 0
        /\ Count("resolve") = 0
        /\ RegenCalls = {}

\* C2: when a probe has returned requests and the fallback round is over,
\* there is a regeneration call whose context is the concatenation of the
\* round's tool results and whose question is the user's, and its answer is
\* the output.
C2_RegeneratedFromToolResults ==
    RoundOver =>
        \E i \in RegenCalls :
            /\ calls[i].ctx = ConcatOuts(Resolves)
            /\ calls[i].ctx = context
            /\ calls[i].arg = user_input
            /\ Outputs = <<BotLine(calls[i].out)>>

\* C3: once three probes have come back empty, the apology is the one thing
\* printed for the question, no tool is resolved and no regeneration is made.
C3_ExhaustionGivesApology ==
    Cardinality(EmptyProbes) >= 3 =>
        /\ Outputs = <<ApologyLine>>
        /\ Count("resolve") = 0
        /\ RegenCalls = {}

C3_Witness ==
    /\ pc = "ended"
    /\ Cardinality(EmptyProbes) = 3
    /\ Outputs = <<ApologyLine>>

\* C4: the session loop is left only when the user has entered exit or quit.
C4_OnlyExitEndsSession ==
    pc = "ended" => IsExit(user_input)

CallBounds ==
    /\ Cardinality(PrimaryCalls) <= 1
    /\ Count("probe") <= 3
    /\ Cardinality(RegenCalls) <= 1

\* C5: every external call returning, the processing of a question comes to
\* an end (an output and the next prompt, the end of the session, or an
\* uncaught exception), and on the way it makes at most 1 primary
\* generation, 3 probes and 1 regeneration.
C5_BoundedAndTerminates ==
    /\ []CallBounds
    /\ InQuestion ~> ~InQuestion

C5_Witness ==
    /\ QuestionOver
    /\ Cardinality(PrimaryCalls) = 1
    /\ Count("probe") = 3

\* C6: the groundedness check is made at most once for a question, on the
\* primary answer; it has been made exactly once as soon as the fallback is
\* entered or the question is over, and never after a regeneration.
C6_VerifiedOnceOnPrimary ==
    /\ Count("verify") <= 1
    /\ \A i \in CallsOf("verify") :
           /\ \E j \in PrimaryCalls : j < i /\ calls[i].arg = calls[j].out
           /\ \A k \in RegenCalls : i < k
    /\ (pc \in {"probe", "fallback"} \/ QuestionOver) => Count("verify") = 1

C6_Witness ==
    /\ QuestionOver
    /\ Count("probe") > 0
    /\ Count("verify") = 1

\* C7: when the fallback round is over, each request of the round has been
\* resolved exactly once, in request order, and the context is the
\* concatenation of the results.
C7_ContextIsConcatenation ==
    RoundOver =>
        /\ exc = "none"
        /\ Len(Resolves) = Len(tool_calls)
        /\ \A i \in DOMAIN Resolves : Resolves[i].arg = tool_calls[i].name
        /\ context = ConcatOuts(Resolves)

\* C8: a round holding a request for a tool that does not exist ends without
\* an uncaught exception, with every request resolved and the regeneration
\* made.
C8_UnknownToolHandled ==
    (RoundOver /\ HasUnknownTool(tool_calls)) =>
        /\ exc = "none"
        /\ Len(Resolves) = Len(tool_calls)
        /\ RegenCalls # {}

\* C9: a question whose processing is over has been given exactly one
\* output: one answer or one apology.
C9_ExactlyOneOutput ==
    QuestionOver => Len(Outputs) = 1

\* the spellings of exit and quit among the inputs
ExitInputs == {STR_exit, STR_quit, IN_EXIT, IN_Quit}

\* C11: an input that is exit or quit in any capitalization ends the session
\* loop at once: no retriever, generator, verifier or tool call is made for
\* it and nothing is printed.
C11_ExitEndsAtOnce ==
    (asked > 0 /\ user_input \in ExitInputs) =>
        /\ pc = "ended"
        /\ calls = <<>>
        /\ printed = <<>>

C11_Witness ==
    /\ asked > 0
    /\ user_input = IN_EXIT
    /\ pc = "ended"

C13_GroundedVerdictAccepted ==
    \A i \in CallsOf("verify") :
        startswith(lower(calls[i].out), V_grounded) =>
            /\ groundedness_check(calls[i].out)
            /\ i = Len(calls) => (pc = "prompt" /\ Outputs = <<BotLine(response)>>)

\* C14: after a verdict that is not a grounded verdict, a value that is not
\* a string included, the fallback is entered and the primary answer is not
\* printed.
C14_FailClosed ==
    \A i \in CallsOf("verify") :
        (~startswith(lower(calls[i].out), V_grounded) /\ i = Len(calls)) =>
            /\ pc = "probe"
            /\ Outputs = <<>>

IsKnownResolve(c) == lower(c.arg) \in RegisteredTools

\* C15: when the fallback round is over every request has been resolved, a
\* request for a name outside the tool set has added the empty text, and the
\* context is the concatenation of the results of the other requests.
C15_UnknownToolAddsNothing ==
    RoundOver =>
        /\ Len(Resolves) = Len(tool_calls)
        /\ \A i \in DOMAIN Resolves :
               ~IsKnownResolve(Resolves[i]) => Resolves[i].out = <<>>
        /\ context = ConcatOuts(SelectSeq(Resolves, IsKnownResolve))

\* C16: an error raised while a request of the round is resolved does not
\* leave main(): once resolution calls have been made and the round is over,
\* the regeneration has been made and the session is back at the prompt.
C16_ToolErrorContained ==
    (Count("resolve") > 0 /\ pc # "fallback") =>
        /\ exc = "none"
        /\ RegenCalls # {}
        /\ pc = "prompt"

FailedGeneratorCalls ==
    {i \in DOMAIN calls : calls[i].op \in {"generate failed", "probe failed"}}

\* C17: after a generator call has failed, the call is not made again, no
\* exception has left main() and the session is back at the prompt for the
\* next question.
C17_GeneratorFaultAbortsQuestionOnly ==
    \A i \in FailedGeneratorCalls :
        /\ i = Len(calls)
        /\ exc = "none"
        /\ pc = "prompt"

\* C18: a call of call_tool_func invokes a tool if and only if the
\* lower-cased name of its request is one of the registered tools.
C18_InvokedIffRegistered ==
    \A i \in DOMAIN Resolves :
        lower(Resolves[i].arg) \in RegisteredTools
            <=> \E j \in CallsOf("invoke") : calls[j].arg = lower(Resolves[i].arg)

\* the place of call i in the order retrieval, primary generation,
\* verification, probes, resolutions, regeneration
Phase(i) ==
    LET afterVerify == \E j \in CallsOf("verify") : j < i IN
    CASE calls[i].op = "retrieve" -> IF afterVerify THEN 6 ELSE 1
      [] calls[i].op = "generate" -> IF afterVerify THEN 7 ELSE 2
      [] calls[i].op = "verify" -> 3
      [] calls[i].op = "probe" -> 4
      [] OTHER -> 5

\* C19: the calls made for a question follow the order retrieval, primary
\* generation, verification, probes, resolutions, regeneration; a generation
\* has the context the retriever gave just before it, the verification has
\* the primary answer, and probes and resolutions come only after a check
\* that returned not grounded.
C19_CallsInOrder ==
    /\ \A i, j \in DOMAIN calls : i < j => Phase(i) <= Phase(j)
    /\ \A i, j \in DOMAIN calls : (i < j /\ Phase(i) <= 3) => Phase(i) < Phase(j)
    /\ \A i \in CallsOf("generate") :
           /\ i > 1
           /\ calls[i - 1].op = "retrieve"
           /\ calls[i - 1].out = calls[i].ctx
    /\ \A i \in CallsOf("verify") :
           \E j \in PrimaryCalls : j < i /\ calls[i].arg = calls[j].out
    /\ \A i \in CallsOf("probe") \cup CallsOf("resolve") :
           \E j \in CallsOf("verify") : j < i /\ ~groundedness_check(calls[j].out)

C19_Witness ==
    /\ pc = "crashed"
    /\ Count("probe") = 2
    /\ Count("resolve") = 1

\* C20: the retriever is called once for each generation made through
\* invokellm, just before it and with the user's question: once for a
\* question that has got past its primary generation, and once more for a
\* regeneration.
C20_RetrieverOncePerGeneration ==
    /\ Count("retrieve") = Count("generate")
    /\ \A i \in CallsOf("retrieve") :
           /\ calls[i].arg = user_input
           /\ i < Len(calls)
           /\ calls[i + 1].op = "generate"
           /\ calls[i + 1].arg = user_input
    /\ (QuestionOver \/ pc \in {"verify", "probe", "fallback"}) =>
           Count("retrieve") = 1 + Cardinality(RegenCalls)

C20_Witness ==
    /\ pc = "ended"
    /\ Count("probe") = 3
    /\ Count("retrieve") = 1
    /\ Count("generate") = 1

====
